---- MODULE Spec2Model ----
(***************************************************************************)
(* A model of coax's value-based policies (coax/_core/value_based_policy.py)*)
(* and of the PPO training-loop stub (doc/examples/stubs/ppo.py).           *)
(*                                                                         *)
(*   SpecFunc    the jitted distribution functions of EpsilonGreedy and    *)
(*               BoltzmannPolicy, as pure functions of their inputs        *)
(*   SpecPolicy  construction of policies, the params / function_state /   *)
(*               rng properties and their setters                          *)
(*   SpecPPO     the control flow of the PPO training loop                 *)
(*                                                                         *)
(* Real numbers are exact rationals <<numerator, denominator>>; a division *)
(* by zero gives NonFinite (numpy's inf / nan).                            *)
(***************************************************************************)
EXTENDS Integers, Sequences, FiniteSets, TLC

VARIABLES
    fcall,             \* SpecFunc: a call of a policy's function, with its result
    policies,          \* the policy objects: class, attributes set, wrapped q, epsilon / temperature
    q_params,          \* q.params of every q-function
    q_function_state,  \* q.function_state of every q-function
    q_random_key,      \* the random state behind q.rng of every q-function
    last,              \* the last operation made on a policy or a q-function
    pc,                \* PPO loop: the statement about to run
    ep,                \* PPO loop: the episode, `for ep in range(100)`
    t,                 \* PPO loop: the step, `for t in range(env.spec.max_episode_steps)`
    done,              \* PPO loop: done, as env.step returned it
    pending,           \* PPO loop: the transition (s, a, r, done, logp) of this step
    buffer,            \* the replay buffer: how many transitions each policy parameters generated
    pi,                \* the parameters of pi
    pi_behavior,       \* the parameters of pi_behavior
    v,                 \* the parameters of v
    iteration,         \* PPO loop: the iterations of `for _ in range(...)` completed
    transition_batch,  \* PPO loop: the batch sampled last
    td_error,          \* PPO loop: the td_error computed last
    Adv,               \* the Adv handed to ppo_clip.update last
    blocks,            \* how many update blocks were entered
    added,             \* whether this step's transition was handed to buffer.add
    trace              \* the calls made in the current iteration of the update block

(***************************************************************************)
(* Exact rational arithmetic.                                              *)
(***************************************************************************)
Abs(x) == IF x < 0 THEN -x ELSE x

RECURSIVE GCD(_, _)
GCD(a, b) == IF b = 0 THEN a ELSE GCD(b, a % b)

NonFinite == <<0, 0>>

IsFinite(x) == x[2] # 0

Rat(n, d) ==
    IF d = 0 THEN NonFinite
    ELSE LET g == GCD(Abs(n), Abs(d))
             s == IF d < 0 THEN -1 ELSE 1
         IN  <<(s * n) \div g, (s * d) \div g>>

FromInt(i) == <<i, 1>>

RAdd(x, y) ==
    IF IsFinite(x) /\ IsFinite(y) THEN Rat(x[1] * y[2] + y[1] * x[2], x[2] * y[2])
    ELSE NonFinite

RSub(x, y) ==
    IF IsFinite(x) /\ IsFinite(y) THEN Rat(x[1] * y[2] - y[1] * x[2], x[2] * y[2])
    ELSE NonFinite

RMul(x, y) ==
    IF IsFinite(x) /\ IsFinite(y) THEN Rat(x[1] * y[1], x[2] * y[2])
    ELSE NonFinite

RDiv(x, y) ==
    IF IsFinite(x) /\ IsFinite(y) THEN Rat(x[1] * y[2], x[2] * y[1])
    ELSE NonFinite

RLess(x, y) == IsFinite(x) /\ IsFinite(y) /\ x[1] * y[2] < y[1] * x[2]

RLeq(x, y) == IsFinite(x) /\ IsFinite(y) /\ x[1] * y[2] <= y[1] * x[2]

RECURSIVE RSum(_)
RSum(row) == IF row = <<>> THEN FromInt(0) ELSE RAdd(row[1], RSum(Tail(row)))

(***************************************************************************)
(* The inputs of the distribution functions.                               *)
(***************************************************************************)
\* q.action_space.n of the wrapped q-function
MaxActions == 3

\* the largest batch (number of rows of S, hence of Q_s)
MaxBatch == 2

\* the q-values a row may hold
QValues == {-1, 2}

\* params['epsilon'] as handed to the function (0.1 is the default)
Epsilons == {<<0, 1>>, <<1, 10>>, <<1, 2>>, <<1, 1>>, <<3, 2>>}

\* params['temperature'] as handed to the function (0.02 is the default)
Temperatures == {<<1, 50>>, <<1, 2>>, <<2, 1>>, <<-1, 1>>}

\* the function states q.function_type2 may hand back
FunctionStates == {"fs0", "fs1"}

Rows(n) == [1..n -> QValues]

Batches(n) == UNION {[1..b -> Rows(n)] : b \in 1..MaxBatch}

(***************************************************************************)
(* Array operations (jax.numpy), on a batch given as a sequence of rows.   *)
(***************************************************************************)
RECURSIVE SeqMax(_)
SeqMax(row) ==
    IF Len(row) = 1 THEN row[1]
    ELSE LET m == SeqMax(Tail(row)) IN IF row[1] > m THEN row[1] ELSE m

\* Q_s.max(axis=1, keepdims=True)
MaxAxis1(M) == [b \in DOMAIN M |-> SeqMax(M[b])]

\* A.sum(axis=1, keepdims=True)
SumAxis1(A) == [b \in DOMAIN A |-> RSum(A[b])]

\* (Q_s == Q_s.max(axis=1, keepdims=True)).astype(Q_s.dtype)
A_greedy_indicator(Q_s) ==
    LET mx == MaxAxis1(Q_s)
    IN  [b \in DOMAIN Q_s |->
            [a \in DOMAIN Q_s[b] |-> IF Q_s[b][a] = mx[b] THEN FromInt(1) ELSE FromInt(0)]]

\* variant: ties left unnormalized (line 178 left out)
A_greedy_unnormalized(A) == A

\* A_greedy /= A_greedy.sum(axis=1, keepdims=True)
A_greedy_normalized(A) ==
    LET s == SumAxis1(A)
    IN  [b \in DOMAIN A |-> [a \in DOMAIN A[b] |-> RDiv(A[b][a], s[b])]]

\* A_greedy *= 1 - params['epsilon']
A_greedy_scaled(A, epsilon) ==
    [b \in DOMAIN A |-> [a \in DOMAIN A[b] |-> RMul(A[b][a], RSub(FromInt(1), epsilon))]]

\* A_greedy += params['epsilon'] / self.q.action_space.n
A_greedy_mixed(A, epsilon, n) ==
    [b \in DOMAIN A |-> [a \in DOMAIN A[b] |-> RAdd(A[b][a], RDiv(epsilon, FromInt(n)))]]

\* jnp.log(x + 1e-15), kept symbolic: the logarithm of x offset by 1e-15
LogPlusTiny(x) == [log_of |-> x, plus |-> "1e-15"]

\* EpsilonGreedy.__init__.func, after q.function_type2 returned (Q_s, new_state)
EpsilonGreedy_func(params, Q_s, new_state, n) ==
    LET A1 == A_greedy_indicator(Q_s)
        A2 == A_greedy_normalized(A1)
        A3 == A_greedy_scaled(A2, params.epsilon)
        A4 == A_greedy_mixed(A3, params.epsilon, n)
    IN  [dist_params |->
            [logits |-> [b \in DOMAIN A4 |-> [a \in DOMAIN A4[b] |-> LogPlusTiny(A4[b][a])]]],
         new_state |-> new_state]

\* variant: Q_s * params['temperature']
Boltzmann_logits_times(Q_s, temperature) ==
    [b \in DOMAIN Q_s |->
        [a \in DOMAIN Q_s[b] |-> RMul(FromInt(Q_s[b][a]), temperature)]]

\* Q_s / params['temperature']
Boltzmann_logits(Q_s, temperature) ==
    [b \in DOMAIN Q_s |->
        [a \in DOMAIN Q_s[b] |-> RDiv(FromInt(Q_s[b][a]), temperature)]]

\* BoltzmannPolicy.__init__.func, after q.function_type2 returned (Q_s, new_state)
Boltzmann_func(params, Q_s, new_state, n) ==
    [dist_params |-> [logits |-> Boltzmann_logits(Q_s, params.temperature)],
     new_state |-> new_state]

(***************************************************************************)
(* SpecFunc: calls of the two functions on every input of the bounds.      *)
(***************************************************************************)
\* what fcall.out holds before the function has returned
NoResult == [dist_params |-> [logits |-> <<>>], new_state |-> "none"]

\* The calls made: every policy class, action count, batch and exploration parameter
FuncInputs(call) ==
    \E n \in 1..MaxActions, fs \in FunctionStates :
      \E Q_s \in Batches(n) :
        \/ \E epsilon \in Epsilons :
              call = [policy |-> "EpsilonGreedy", n |-> n, Q_s |-> Q_s, q_new_state |-> fs,
                      param |-> epsilon, returned |-> FALSE, out |-> NoResult]
        \/ \E temperature \in Temperatures :
              call = [policy |-> "BoltzmannPolicy", n |-> n, Q_s |-> Q_s, q_new_state |-> fs,
                      param |-> temperature, returned |-> FALSE, out |-> NoResult]

\* func(params, state, rng, S, is_training) of an EpsilonGreedy policy
CallEpsilonGreedy ==
    /\ fcall.policy = "EpsilonGreedy"
    /\ ~fcall.returned
    /\ fcall' = [fcall EXCEPT !.returned = TRUE, !.out =
            EpsilonGreedy_func([epsilon |-> fcall.param], fcall.Q_s, fcall.q_new_state, fcall.n)]

\* func(params, state, rng, S, is_training) of a BoltzmannPolicy
CallBoltzmann ==
    /\ fcall.policy = "BoltzmannPolicy"
    /\ ~fcall.returned
    /\ fcall' = [fcall EXCEPT !.returned = TRUE, !.out =
            Boltzmann_func([temperature |-> fcall.param], fcall.Q_s, fcall.q_new_state, fcall.n)]

(***************************************************************************)
(* The objects: q-functions, and what else a constructor may be handed.    *)
(***************************************************************************)
\* q-functions over a Discrete action space
QFuncs == {"q1", "q2"}

\* a q-function over a Box action space, and a state value function v
Objects == QFuncs \cup {"q_box", "v"}

Policies == {"pi1", "pi2"}

\* coax.utils.is_qfunction
is_qfunction(o) == o \in QFuncs \cup {"q_box"}

\* isinstance(q.action_space, gym.spaces.Discrete)
action_space_is_Discrete(o) == o \in QFuncs

\* the largest leaf of a q-function's parameter tree
MaxWeight == 1

\* a q-function's params: a tree with the one leaf 'w'
QParamTrees == [{"w"} -> 0..MaxWeight]

\* a tree of another structure
OtherTree == [w |-> 0, b |-> 0]

\* the values handed in as epsilon or temperature
ExploreValues == {<<-1, 1>>, <<1, 10>>, <<3, 2>>}

\* def __init__(self, q, epsilon=0.1)
DefaultEpsilon == <<1, 10>>

\* def __init__(self, q, temperature=0.02)
DefaultTemperature == <<1, 50>>

NoValue == <<0, 0>>

\* an object before __init__ ran
Unborn == [cls |-> "none", raised |-> FALSE, ctor_arg |-> "none", attrs |-> {},
           q |-> "none", epsilon |-> NoValue, temperature |-> NoValue]

Constructed(self) == self.cls # "none" /\ ~self.raised

\* jax.tree_structure of a q-function's params
QTreeStructure(tree) == DOMAIN tree

\* jax.tree_structure of a policy's params: the keys, the structure of the 'q'
\* subtree, a leaf elsewhere
TreeStructure(params) ==
    [k \in DOMAIN params |-> IF k = "q" THEN QTreeStructure(params[k]) ELSE {}]

\* hk.data_structures.to_immutable_dict: the same keys and values, rebuilt
to_immutable_dict(d) ==
    [k \in DOMAIN d |-> IF k = "q" THEN [j \in DOMAIN d[k] |-> d[k][j]] ELSE d[k]]

(***************************************************************************)
(* Q (coax/_core/q.py, coax/_core/base_func.py).                           *)
(***************************************************************************)
\* Q.params setter: q.params = new_params
Q_set_params(qp, q, new_params) ==
    IF QTreeStructure(new_params) # QTreeStructure(qp[q])
    THEN [q_params |-> qp, raised |-> TRUE]
    ELSE [q_params |-> [qp EXCEPT ![q] = new_params], raised |-> FALSE]

\* Q.function_state setter: q.function_state = new_function_state
Q_set_function_state(qfs, q, new_function_state) ==
    [qfs EXCEPT ![q] = new_function_state]

\* the most keys drawn from one q-function's random state
MaxDraws == 1

\* Q.rng: the key handed out, and the random state advanced
Q_rng(keys, q) == [key |-> <<q, keys[q]>>, keys |-> [keys EXCEPT ![q] = @ + 1]]

(***************************************************************************)
(* BaseValueBasedPolicy.                                                   *)
(***************************************************************************)
\* variant: __init__ without its two checks
BaseValueBasedPolicy_init_unchecked(self, q) ==
    [self EXCEPT !.ctor_arg = q, !.q = q,
        !.attrs = {"q", "observation_preprocessor", "action_preprocessor", "proba_dist"}]

\* BaseValueBasedPolicy.__init__(self, q)
BaseValueBasedPolicy_init(self, q) ==
    IF ~is_qfunction(q) THEN [self EXCEPT !.ctor_arg = q, !.raised = TRUE]
    ELSE IF ~action_space_is_Discrete(q) THEN [self EXCEPT !.ctor_arg = q, !.raised = TRUE]
    ELSE [self EXCEPT !.ctor_arg = q, !.q = q,
            !.attrs = {"q", "observation_preprocessor", "action_preprocessor", "proba_dist"}]

\* BaseValueBasedPolicy.rng: self.q.rng
Policy_rng(self, keys) == Q_rng(keys, self.q)

\* BaseValueBasedPolicy.function_state: self.q.function_state
Policy_function_state(self, qfs) == qfs[self.q]

\* variant: the new function state kept on the policy, q untouched
Policy_set_function_state_private(self, qfs, new_function_state) == qfs

\* BaseValueBasedPolicy.function_state setter
Policy_set_function_state(self, qfs, new_function_state) ==
    Q_set_function_state(qfs, self.q, new_function_state)

(***************************************************************************)
(* EpsilonGreedy.                                                          *)
(***************************************************************************)
\* EpsilonGreedy.__init__(self, q, epsilon)
EpsilonGreedy_init(self, q, epsilon) ==
    LET base == BaseValueBasedPolicy_init([self EXCEPT !.cls = "EpsilonGreedy"], q)
    IN  IF base.raised THEN base
        ELSE [base EXCEPT !.epsilon = epsilon, !.attrs = @ \cup {"epsilon", "_function"}]

\* EpsilonGreedy.params
EpsilonGreedy_params(self, qp) ==
    to_immutable_dict([epsilon |-> self.epsilon, q |-> qp[self.q]])

\* variant: the setter without the assignment to self.q.params
EpsilonGreedy_set_params_own_only(self, qp, new_params) ==
    IF TreeStructure(new_params) # TreeStructure(EpsilonGreedy_params(self, qp))
    THEN [self |-> self, q_params |-> qp, raised |-> TRUE]
    ELSE [self |-> [self EXCEPT !.epsilon = new_params.epsilon], q_params |-> qp,
          raised |-> FALSE]

\* variant: the setter without the assignment to self.epsilon
EpsilonGreedy_set_params_q_only(self, qp, new_params) ==
    IF TreeStructure(new_params) # TreeStructure(EpsilonGreedy_params(self, qp))
    THEN [self |-> self, q_params |-> qp, raised |-> TRUE]
    ELSE LET set == Q_set_params(qp, self.q, new_params.q)
         IN  [self |-> self, q_params |-> set.q_params, raised |-> set.raised]

\* EpsilonGreedy.params setter: self.params = new_params
EpsilonGreedy_set_params(self, qp, new_params) ==
    IF TreeStructure(new_params) # TreeStructure(EpsilonGreedy_params(self, qp))
    THEN [self |-> self, q_params |-> qp, raised |-> TRUE]
    ELSE LET set == Q_set_params(qp, self.q, new_params.q)
         IN  [self |-> [self EXCEPT !.epsilon = new_params.epsilon],
              q_params |-> set.q_params, raised |-> set.raised]

(***************************************************************************)
(* BoltzmannPolicy.                                                        *)
(***************************************************************************)
\* BoltzmannPolicy.__init__(self, q, temperature)
BoltzmannPolicy_init(self, q, temperature) ==
    LET base == BaseValueBasedPolicy_init([self EXCEPT !.cls = "BoltzmannPolicy"], q)
    IN  IF base.raised THEN base
        ELSE [base EXCEPT !.temperature = temperature,
                          !.attrs = @ \cup {"temperature", "_function"}]

\* BoltzmannPolicy.params
BoltzmannPolicy_params(self, qp) ==
    to_immutable_dict([temperature |-> self.temperature, q |-> qp[self.q]])

\* BoltzmannPolicy.params setter: self.params = new_params
BoltzmannPolicy_set_params(self, qp, new_params) ==
    IF TreeStructure(new_params) # TreeStructure(BoltzmannPolicy_params(self, qp))
    THEN [self |-> self, q_params |-> qp, raised |-> TRUE]
    ELSE LET set == Q_set_params(qp, self.q, new_params.q)
         IN  [self |-> [self EXCEPT !.temperature = new_params.temperature],
              q_params |-> set.q_params, raised |-> set.raised]

(***************************************************************************)
(* Operations on the objects.                                              *)
(***************************************************************************)
\* policy.params, whatever the class
Params(self, qp) ==
    IF self.cls = "EpsilonGreedy" THEN EpsilonGreedy_params(self, qp)
    ELSE BoltzmannPolicy_params(self, qp)

\* the values policy.params may be assigned
NewParams ==
    {[epsilon |-> x, q |-> tree] : x \in ExploreValues, tree \in QParamTrees}
    \cup {[temperature |-> x, q |-> tree] : x \in ExploreValues, tree \in QParamTrees}
    \cup {[epsilon |-> DefaultEpsilon, q |-> OtherTree],
          [temperature |-> DefaultTemperature, q |-> OtherTree],
          [q |-> [w |-> 0]]}

\* policy = EpsilonGreedy(q, epsilon) or policy = EpsilonGreedy(q)
ConstructEpsilonGreedy(p) ==
    /\ policies[p] = Unborn
    /\ \E q \in Objects, epsilon \in ExploreValues \cup {DefaultEpsilon} :
        /\ policies' = [policies EXCEPT ![p] = EpsilonGreedy_init(Unborn, q, epsilon)]
        /\ last' = [op |-> "EpsilonGreedy", target |-> p,
                    arg |-> [q |-> q, value |-> epsilon],
                    raised |-> policies'[p].raised]
    /\ UNCHANGED <<fcall, q_params, q_function_state, q_random_key>>

\* policy = BoltzmannPolicy(q, temperature) or policy = BoltzmannPolicy(q)
ConstructBoltzmannPolicy(p) ==
    /\ policies[p] = Unborn
    /\ \E q \in Objects, temperature \in ExploreValues \cup {DefaultTemperature} :
        /\ policies' = [policies EXCEPT ![p] = BoltzmannPolicy_init(Unborn, q, temperature)]
        /\ last' = [op |-> "BoltzmannPolicy", target |-> p,
                    arg |-> [q |-> q, value |-> temperature],
                    raised |-> policies'[p].raised]
    /\ UNCHANGED <<fcall, q_params, q_function_state, q_random_key>>

\* policy.params = new_params
AssignPolicyParams(p) ==
    /\ Constructed(policies[p])
    /\ \E new_params \in NewParams :
        LET set == IF policies[p].cls = "EpsilonGreedy"
                   THEN EpsilonGreedy_set_params(policies[p], q_params, new_params)
                   ELSE BoltzmannPolicy_set_params(policies[p], q_params, new_params)
        IN  /\ policies' = [policies EXCEPT ![p] = set.self]
            /\ q_params' = set.q_params
            /\ last' = [op |-> "policy.params=", target |-> p, arg |-> new_params,
                        raised |-> set.raised]
    /\ UNCHANGED <<fcall, q_function_state, q_random_key>>

\* q.params = new_params, on the q-function itself
AssignQParams(q) ==
    /\ \E new_params \in QParamTrees \cup {OtherTree} :
        LET set == Q_set_params(q_params, q, new_params)
        IN  /\ q_params' = set.q_params
            /\ last' = [op |-> "q.params=", target |-> q, arg |-> new_params,
                        raised |-> set.raised]
    /\ UNCHANGED <<fcall, policies, q_function_state, q_random_key>>

\* policy.function_state = new_function_state
AssignPolicyFunctionState(p) ==
    /\ Constructed(policies[p])
    /\ \E fs \in FunctionStates :
        /\ q_function_state' = Policy_set_function_state(policies[p], q_function_state, fs)
        /\ last' = [op |-> "policy.function_state=", target |-> p, arg |-> fs,
                    raised |-> FALSE]
    /\ UNCHANGED <<fcall, policies, q_params, q_random_key>>

\* q.function_state = new_function_state, on the q-function itself
AssignQFunctionState(q) ==
    /\ \E fs \in FunctionStates :
        /\ q_function_state' = Q_set_function_state(q_function_state, q, fs)
        /\ last' = [op |-> "q.function_state=", target |-> q, arg |-> fs, raised |-> FALSE]
    /\ UNCHANGED <<fcall, policies, q_params, q_random_key>>

\* policy.rng
ReadPolicyRng(p) ==
    /\ Constructed(policies[p])
    /\ q_random_key[policies[p].q] < MaxDraws
    /\ LET got == Policy_rng(policies[p], q_random_key)
       IN  /\ q_random_key' = got.keys
           /\ last' = [op |-> "policy.rng", target |-> p, arg |-> got.key, raised |-> FALSE]
    /\ UNCHANGED <<fcall, policies, q_params, q_function_state>>

\* q.rng, on the q-function itself
ReadQRng(q) ==
    /\ q_random_key[q] < MaxDraws
    /\ LET got == Q_rng(q_random_key, q)
       IN  /\ q_random_key' = got.keys
           /\ last' = [op |-> "q.rng", target |-> q, arg |-> got.key, raised |-> FALSE]
    /\ UNCHANGED <<fcall, policies, q_params, q_function_state>>

(***************************************************************************)
(* The PPO training loop (doc/examples/stubs/ppo.py).                      *)
(*                                                                         *)
(* Parameters of a function are a sequence of version numbers: <<j>> for   *)
(* the parameters pi has after j updates, and for pi_behavior the versions *)
(* of pi mixed into it so far.                                             *)
(***************************************************************************)
\* for ep in range(100)
NumEpisodes == 100

\* env.spec.max_episode_steps
MaxEpisodeSteps == 6

\* ExperienceReplayBuffer(env, n=5, gamma=0.9, capacity=256)
capacity == 256

\* buffer.sample(batch_size=32)
batch_size == 32

\* range(4 * buffer.capacity // 32): the factor and the divisor
NumPasses == 4

PassDivisor == 32

\* 4 * buffer.capacity // 32
NumIterations == (NumPasses * capacity) \div PassDivisor

\* smooth_update(pi, tau=0.1)
tau == <<1, 10>>

EmptyBuffer == <<>>

RECURSIVE BufferLen(_)
\* len(buffer)
BufferLen(b) ==
    IF DOMAIN b = {} THEN 0
    ELSE LET g == CHOOSE x \in DOMAIN b : TRUE
         IN  b[g] + BufferLen([x \in DOMAIN b \ {g} |-> b[x]])

\* buffer.add(s, a, r, done, logp): one transition more
BufferAdd(b, transition) ==
    IF transition.by \in DOMAIN b
    THEN [b EXCEPT ![transition.by] = @ + 1]
    ELSE [x \in DOMAIN b \cup {transition.by} |-> IF x = transition.by THEN 1 ELSE b[x]]

\* buffer.clear()
BufferClear(b) == EmptyBuffer

\* buffer.sample(batch_size=32): the parameters that generated the sampled transitions
BufferSamples(b) == {by \in SUBSET DOMAIN b : by # {} /\ Cardinality(by) <= batch_size}

\* pi.copy()
copy(params) == params

\* pi_behavior.smooth_update(pi, tau): (1 - tau) * own + tau * other
smooth_update(own, other, rate) == IF rate = FromInt(0) THEN own ELSE own \o other

\* what ppo_clip.update and value_td.update do to the parameters they update
updated(params) == <<params[1] + 1>>

NoTransition == [by |-> <<>>]

NoBatch == {}

NoTdError == [batch |-> {}, v |-> <<0>>]

\* the statements of the update block, lines 49-55
BlockStatements == {"sample", "td_error", "ppo_clip.update", "value_td.update",
                    "buffer.clear", "smooth_update"}

\* s = env.reset()
Reset ==
    /\ pc = "reset"
    /\ t' = 0
    /\ pc' = "act"
    /\ UNCHANGED <<ep, done, pending, buffer, pi, pi_behavior, v, iteration,
                   transition_batch, td_error, Adv, blocks, added, trace>>

\* variant: the action sampled from pi instead of pi_behavior
Act_with_pi ==
    /\ pc = "act"
    /\ pending' = [by |-> pi]
    /\ done' \in BOOLEAN
    /\ added' = FALSE
    /\ pc' = "buffer.add"
    /\ UNCHANGED <<ep, t, buffer, pi, pi_behavior, v, iteration,
                   transition_batch, td_error, Adv, blocks, trace>>

\* a, logp = pi_behavior(s, return_logp=True); s_next, r, done, info = env.step(a)
Act ==
    /\ pc = "act"
    /\ pending' = [by |-> pi_behavior]
    /\ done' \in BOOLEAN
    /\ added' = FALSE
    /\ pc' = "buffer.add"
    /\ UNCHANGED <<ep, t, buffer, pi, pi_behavior, v, iteration,
                   transition_batch, td_error, Adv, blocks, trace>>

\* buffer.add(s, a, r, done, logp)
Add ==
    /\ pc = "buffer.add"
    /\ buffer' = BufferAdd(buffer, pending)
    /\ added' = TRUE
    /\ pc' = "if full"
    /\ UNCHANGED <<ep, t, done, pending, pi, pi_behavior, v, iteration,
                   transition_batch, td_error, Adv, blocks, trace>>

\* if len(buffer) == buffer.capacity: for _ in range(4 * buffer.capacity // 32):
CheckFull ==
    /\ pc = "if full"
    /\ IF BufferLen(buffer) = capacity
       THEN /\ iteration' = 0
            /\ blocks' = blocks + 1
            /\ pc' = IF NumIterations > 0 THEN "sample" ELSE "buffer.clear"
       ELSE /\ pc' = "if done"
            /\ UNCHANGED <<iteration, blocks>>
    /\ UNCHANGED <<ep, t, done, pending, buffer, pi, pi_behavior, v,
                   transition_batch, td_error, Adv, added, trace>>

\* transition_batch = buffer.sample(batch_size=32)
Sample ==
    /\ pc = "sample"
    /\ transition_batch' \in BufferSamples(buffer)
    /\ trace' = <<"sample">>
    /\ pc' = "td_error"
    /\ UNCHANGED <<ep, t, done, pending, buffer, pi, pi_behavior, v, iteration,
                   td_error, Adv, blocks, added>>

\* td_error = value_td.td_error(transition_batch)
TdError ==
    /\ pc = "td_error"
    /\ td_error' = [batch |-> transition_batch, v |-> v]
    /\ trace' = Append(trace, "td_error")
    /\ pc' = "ppo_clip.update"
    /\ UNCHANGED <<ep, t, done, pending, buffer, pi, pi_behavior, v, iteration,
                   transition_batch, Adv, blocks, added>>

\* ppo_clip.update(transition_batch, Adv=td_error)
PpoClipUpdate ==
    /\ pc = "ppo_clip.update"
    /\ pi' = updated(pi)
    /\ Adv' = td_error
    /\ trace' = Append(trace, "ppo_clip.update")
    /\ pc' = "value_td.update"
    /\ UNCHANGED <<ep, t, done, pending, buffer, pi_behavior, v, iteration,
                   transition_batch, td_error, blocks, added>>

\* value_td.update(transition_batch), and the next iteration or the end of the for loop
ValueTdUpdate ==
    /\ pc = "value_td.update"
    /\ v' = updated(v)
    /\ trace' = Append(trace, "value_td.update")
    /\ iteration' = iteration + 1
    /\ pc' = IF iteration + 1 < NumIterations THEN "sample" ELSE "buffer.clear"
    /\ UNCHANGED <<ep, t, done, pending, buffer, pi, pi_behavior,
                   transition_batch, td_error, Adv, blocks, added>>

\* variant: the update block without buffer.clear()
Clear_skipped ==
    /\ pc = "buffer.clear"
    /\ pc' = "smooth_update"
    /\ UNCHANGED <<ep, t, done, pending, buffer, pi, pi_behavior, v, iteration,
                   transition_batch, td_error, Adv, blocks, added, trace>>

\* buffer.clear()
Clear ==
    /\ pc = "buffer.clear"
    /\ buffer' = BufferClear(buffer)
    /\ pc' = "smooth_update"
    /\ UNCHANGED <<ep, t, done, pending, pi, pi_behavior, v, iteration,
                   transition_batch, td_error, Adv, blocks, added, trace>>

\* pi_behavior.smooth_update(pi, tau=0.1)
SmoothUpdate ==
    /\ pc = "smooth_update"
    /\ pi_behavior' = smooth_update(pi_behavior, pi, tau)
    /\ pc' = "if done"
    /\ UNCHANGED <<ep, t, done, pending, buffer, pi, v, iteration,
                   transition_batch, td_error, Adv, blocks, added, trace>>

\* if done: break; else s = s_next and the next step; after the last step or the
\* break, the next episode
CheckDone ==
    /\ pc = "if done"
    /\ IF ~done /\ t + 1 < MaxEpisodeSteps
       THEN /\ t' = t + 1
            /\ pc' = "act"
            /\ UNCHANGED ep
       ELSE IF ep + 1 < NumEpisodes
       THEN /\ ep' = ep + 1
            /\ pc' = "reset"
            /\ UNCHANGED t
       ELSE /\ pc' = "finished"
            /\ UNCHANGED <<ep, t>>
    /\ UNCHANGED <<done, pending, buffer, pi, pi_behavior, v, iteration,
                   transition_batch, td_error, Adv, blocks, added, trace>>

obj_vars == <<policies, q_params, q_function_state, q_random_key, last>>

ppo_vars == <<pc, ep, t, done, pending, buffer, pi, pi_behavior, v, iteration,
              transition_batch, td_error, Adv, blocks, added, trace>>

vars == <<fcall, obj_vars, ppo_vars>>

\* lines 20-33: pi_behavior = pi.copy(), an empty buffer, and the loop not yet entered
InitPPO ==
    /\ pc = "reset"
    /\ ep = 0
    /\ t = 0
    /\ done = FALSE
    /\ pending = NoTransition
    /\ buffer = EmptyBuffer
    /\ pi = <<0>>
    /\ pi_behavior = copy(<<0>>)
    /\ v = <<0>>
    /\ iteration = 0
    /\ transition_batch = NoBatch
    /\ td_error = NoTdError
    /\ Adv = NoTdError
    /\ blocks = 0
    /\ added = FALSE
    /\ trace = <<>>

NoOperation == [op |-> "none", target |-> "none", arg |-> "none", raised |-> FALSE]

\* the objects before any policy is constructed
InitObjects ==
    /\ policies = [p \in Policies |-> Unborn]
    /\ q_params = [q \in QFuncs |-> [w |-> 0]]
    /\ q_function_state = [q \in QFuncs |-> "fs0"]
    /\ q_random_key = [q \in QFuncs |-> 0]
    /\ last = NoOperation

IdleFunc == fcall = [policy |-> "none"]

(***************************************************************************)
(* SpecFunc: calls of the two distribution functions.                      *)
(***************************************************************************)
InitFunc == FuncInputs(fcall) /\ InitObjects /\ InitPPO

NextFunc ==
    \/ CallEpsilonGreedy /\ UNCHANGED <<obj_vars, ppo_vars>>
    \/ CallBoltzmann /\ UNCHANGED <<obj_vars, ppo_vars>>

SpecFunc == InitFunc /\ [][NextFunc]_vars

(***************************************************************************)
(* SpecPolicy: construction of policies and assignments of params.         *)
(***************************************************************************)
\* nothing constructed, no function called, the training loop not entered
InitProgram == IdleFunc /\ InitObjects /\ InitPPO

NextPolicy ==
    \/ \E p \in Policies : ConstructEpsilonGreedy(p) /\ UNCHANGED ppo_vars
    \/ \E p \in Policies : ConstructBoltzmannPolicy(p) /\ UNCHANGED ppo_vars
    \/ \E p \in Policies : AssignPolicyParams(p) /\ UNCHANGED ppo_vars
    \/ \E q \in QFuncs : AssignQParams(q) /\ UNCHANGED ppo_vars

SpecPolicy == InitProgram /\ [][NextPolicy]_vars

(***************************************************************************)
(* SpecState: policies sharing a q-function's function state and random    *)
(* state.                                                                  *)
(***************************************************************************)
NextState ==
    \/ \E p \in Policies : ConstructEpsilonGreedy(p) /\ UNCHANGED ppo_vars
    \/ \E p \in Policies : ConstructBoltzmannPolicy(p) /\ UNCHANGED ppo_vars
    \/ \E p \in Policies : AssignPolicyFunctionState(p) /\ UNCHANGED ppo_vars
    \/ \E q \in QFuncs : AssignQFunctionState(q) /\ UNCHANGED ppo_vars
    \/ \E p \in Policies : ReadPolicyRng(p) /\ UNCHANGED ppo_vars
    \/ \E q \in QFuncs : ReadQRng(q) /\ UNCHANGED ppo_vars

SpecState == InitProgram /\ [][NextState]_vars

(***************************************************************************)
(* SpecPPO: the training loop.                                             *)
(***************************************************************************)
NextPPO ==
    \/ Reset /\ UNCHANGED <<fcall, obj_vars>>
    \/ Act /\ UNCHANGED <<fcall, obj_vars>>
    \/ Add /\ UNCHANGED <<fcall, obj_vars>>
    \/ CheckFull /\ UNCHANGED <<fcall, obj_vars>>
    \/ Sample /\ UNCHANGED <<fcall, obj_vars>>
    \/ TdError /\ UNCHANGED <<fcall, obj_vars>>
    \/ PpoClipUpdate /\ UNCHANGED <<fcall, obj_vars>>
    \/ ValueTdUpdate /\ UNCHANGED <<fcall, obj_vars>>
    \/ Clear /\ UNCHANGED <<fcall, obj_vars>>
    \/ SmoothUpdate /\ UNCHANGED <<fcall, obj_vars>>
    \/ CheckDone /\ UNCHANGED <<fcall, obj_vars>>

SpecPPO == InitProgram /\ [][NextPPO]_vars

(***************************************************************************)
(* Claims about the distribution functions (SpecFunc).                     *)
(***************************************************************************)
\* the probability behind a logit of EpsilonGreedy: logit = log(proba + 1e-15)
ProbaOf(logit) == logit.log_of

\* the actions attaining the maximum of a row of q-values
ArgMaxes(row) == {a \in DOMAIN row : \A a2 \in DOMAIN row : row[a2] <= row[a]}

EpsilonGreedyReturned == fcall.policy = "EpsilonGreedy" /\ fcall.returned

BoltzmannReturned == fcall.policy = "BoltzmannPolicy" /\ fcall.returned

\* C1: for every batch row over n actions and every epsilon = e/E in [0,1], with k
\* the number of maximal actions, the probability of a maximal action is
\* (1-epsilon)/k + epsilon/n, that of any other action is epsilon/n, and the
\* probabilities of the row sum to 1; the logit is log(probability + 1e-15).
C1_EpsilonGreedyProbabilities ==
    (EpsilonGreedyReturned /\ RLeq(FromInt(0), fcall.param) /\ RLeq(fcall.param, FromInt(1))) =>
        LET e == fcall.param[1]
            E == fcall.param[2]
            n == fcall.n
            logits == fcall.out.dist_params.logits
        IN  /\ DOMAIN logits = DOMAIN fcall.Q_s
            /\ \A b \in DOMAIN logits :
                LET greedy == ArgMaxes(fcall.Q_s[b])
                    k == Cardinality(greedy)
                IN  /\ DOMAIN logits[b] = 1..n
                    /\ \A a \in 1..n :
                        LET p == ProbaOf(logits[b][a])
                        IN  /\ logits[b][a].plus = "1e-15"
                            /\ IsFinite(p)
                            /\ a \in greedy =>
                                   p[1] * (k * n * E) = p[2] * ((E - e) * n + e * k)
                            /\ a \notin greedy => p[1] * (n * E) = p[2] * e
                    /\ RSum([a \in 1..n |-> ProbaOf(logits[b][a])]) = FromInt(1)

\* C1 witness: a two-row batch over three actions, one row with a tie of two maximal
\* actions and one with a single maximum, under the default epsilon 0.1
C1_Witness ==
    /\ EpsilonGreedyReturned
    /\ fcall.param = <<1, 10>>
    /\ fcall.n = 3
    /\ Len(fcall.Q_s) = 2
    /\ Cardinality(ArgMaxes(fcall.Q_s[1])) = 2
    /\ Cardinality(ArgMaxes(fcall.Q_s[2])) = 1
    /\ ProbaOf(fcall.out.dist_params.logits[1][1]) = <<29, 60>>

\* C2: the logits are the q-values divided by the temperature and the q-function's
\* new state is handed back unchanged; for a temperature > 0 the actions are ordered
\* by logit as they are by q-value, so a largest logit belongs to an argmax of q.
C2_BoltzmannLogits ==
    BoltzmannReturned =>
        LET temperature == fcall.param
            logits == fcall.out.dist_params.logits
        IN  /\ fcall.out.new_state = fcall.q_new_state
            /\ DOMAIN logits = DOMAIN fcall.Q_s
            /\ \A b \in DOMAIN logits :
                /\ DOMAIN logits[b] = 1..fcall.n
                /\ \A a \in 1..fcall.n :
                    /\ IsFinite(logits[b][a])
                    /\ logits[b][a][1] * temperature[1] = fcall.Q_s[b][a] * temperature[2] * logits[b][a][2]
                /\ RLess(FromInt(0), temperature) =>
                    /\ \A a1, a2 \in 1..fcall.n :
                           RLess(logits[b][a1], logits[b][a2])
                               <=> fcall.Q_s[b][a1] < fcall.Q_s[b][a2]
                    /\ \A a \in 1..fcall.n :
                           (\A a2 \in 1..fcall.n : RLeq(logits[b][a2], logits[b][a]))
                               => a \in ArgMaxes(fcall.Q_s[b])

\* C2 witness: the default temperature 0.02 on a row with distinct q-values
C2_Witness ==
    /\ BoltzmannReturned
    /\ fcall.param = <<1, 50>>
    /\ fcall.n = 3
    /\ fcall.Q_s[1] = <<-1, 2, -1>>
    /\ fcall.out.dist_params.logits[1] = <<FromInt(-50), FromInt(100), FromInt(-50)>>
    /\ fcall.out.new_state = "fs1"

(***************************************************************************)
(* Claims about construction and params (SpecPolicy).                      *)
(***************************************************************************)
ZeroToOne(x) == RLeq(FromInt(0), x) /\ RLeq(x, FromInt(1))

Positive(x) == RLess(FromInt(0), x)

SameQ(p1, p2) ==
    Constructed(policies[p1]) /\ Constructed(policies[p2]) /\ policies[p1].q = policies[p2].q

\* C3: a value-based policy is constructed only from a q-function over a Discrete
\* action space; from anything else the constructor raises TypeError with no
\* attribute of the policy set.
C3_ConstructorRejects ==
    \A p \in Policies :
        policies[p].cls # "none" =>
            /\ policies[p].ctor_arg \in {"q_box", "v"} =>
                /\ policies[p].raised
                /\ policies[p].attrs = {}
                /\ policies[p].q = "none"
                /\ policies[p].epsilon = NoValue
                /\ policies[p].temperature = NoValue
            /\ policies[p].ctor_arg \in {"q1", "q2"} =>
                /\ ~policies[p].raised
                /\ policies[p].q = policies[p].ctor_arg
                /\ {"q", "proba_dist", "_function"} \subseteq policies[p].attrs

\* C3 witness: one policy constructor was handed v, the other the Box q-function
C3_Witness ==
    /\ policies["pi1"].cls = "EpsilonGreedy" /\ policies["pi1"].ctor_arg = "v"
    /\ policies["pi2"].cls = "BoltzmannPolicy" /\ policies["pi2"].ctor_arg = "q_box"
    /\ last.raised

\* C4: epsilon of an EpsilonGreedy policy is between 0 and 1 and the temperature of
\* a BoltzmannPolicy is positive, after construction and any params assignments.
C4_ExplorationInRange ==
    \A p \in Policies :
        Constructed(policies[p]) =>
            /\ policies[p].cls = "EpsilonGreedy" => ZeroToOne(policies[p].epsilon)
            /\ policies[p].cls = "BoltzmannPolicy" => Positive(policies[p].temperature)

\* C5: policy.params is the policy's own epsilon / temperature plus the q-function's
\* current params: an assignment to q.params, made on q or through any policy
\* wrapping q, is what every policy wrapping q then reads.
C5_ParamsDelegated ==
    /\ \A p \in Policies :
        Constructed(policies[p]) =>
            LET params == Params(policies[p], q_params)
            IN  /\ policies[p].cls = "EpsilonGreedy" =>
                    /\ DOMAIN params = {"epsilon", "q"}
                    /\ params["epsilon"] = policies[p].epsilon
                /\ policies[p].cls = "BoltzmannPolicy" =>
                    /\ DOMAIN params = {"temperature", "q"}
                    /\ params["temperature"] = policies[p].temperature
                /\ params["q"] = q_params[policies[p].q]
    /\ (last.op = "policy.params=" /\ ~last.raised) =>
        \A p \in Policies :
            SameQ(p, last.target) => Params(policies[p], q_params)["q"] = last.arg["q"]
    /\ (last.op = "q.params=" /\ ~last.raised) =>
        \A p \in Policies :
            (Constructed(policies[p]) /\ policies[p].q = last.target) =>
                Params(policies[p], q_params)["q"] = last.arg

\* C5 witness: params were assigned through an EpsilonGreedy policy while a
\* BoltzmannPolicy wraps the same q-function
C5_Witness ==
    /\ last.op = "policy.params=" /\ ~last.raised /\ last.target = "pi1"
    /\ policies["pi1"].cls = "EpsilonGreedy"
    /\ policies["pi2"].cls = "BoltzmannPolicy"
    /\ SameQ("pi1", "pi2")
    /\ last.arg["q"] = [w |-> 1]
    /\ BoltzmannPolicy_params(policies["pi2"], q_params)["q"] = [w |-> 1]

\* C6: after policy.params = new_params with new_params of the structure of
\* policy.params, policy.params equals new_params, epsilon / temperature is
\* new_params' and q.params is new_params['q']; assigning it again changes nothing.
C6_ParamsRoundTrip ==
    /\ last.op = "policy.params=" =>
        (last.raised <=>
            TreeStructure(last.arg) # TreeStructure(Params(policies[last.target], q_params)))
    /\ (last.op = "policy.params=" /\ ~last.raised) =>
        LET self == policies[last.target]
            again == IF self.cls = "EpsilonGreedy"
                     THEN EpsilonGreedy_set_params(self, q_params, last.arg)
                     ELSE BoltzmannPolicy_set_params(self, q_params, last.arg)
        IN  /\ Params(self, q_params) = last.arg
            /\ self.cls = "EpsilonGreedy" => self.epsilon = last.arg["epsilon"]
            /\ self.cls = "BoltzmannPolicy" => self.temperature = last.arg["temperature"]
            /\ q_params[self.q] = last.arg["q"]
            /\ ~again.raised
            /\ again.self = self
            /\ again.q_params = q_params

\* C6 witness: an EpsilonGreedy policy was assigned an epsilon and q-params other
\* than the initial ones
C6_Witness ==
    /\ last.op = "policy.params=" /\ ~last.raised /\ last.target = "pi2"
    /\ policies["pi2"].cls = "EpsilonGreedy"
    /\ last.arg = [epsilon |-> <<3, 2>>, q |-> [w |-> 1]]
    /\ policies["pi2"].epsilon = <<3, 2>>

(***************************************************************************)
(* Claims about the function state and the random state (SpecState).       *)
(***************************************************************************)
C7_StateDelegated ==
    /\ \A p \in Policies :
        Constructed(policies[p]) =>
            /\ Policy_function_state(policies[p], q_function_state)
                   = q_function_state[policies[p].q]
            /\ Policy_rng(policies[p], q_random_key).key
                   = <<policies[p].q, q_random_key[policies[p].q]>>
    /\ last.op = "policy.function_state=" =>
        /\ q_function_state[policies[last.target].q] = last.arg
        /\ \A p \in Policies :
            SameQ(p, last.target) =>
                Policy_function_state(policies[p], q_function_state) = last.arg
    /\ last.op = "policy.rng" =>
        /\ last.arg[1] = policies[last.target].q
        /\ q_random_key[policies[last.target].q] = last.arg[2] + 1

C7_FunctionStateFrame ==
    (last'.op = "policy.function_state=") => (policies' = policies /\ q_params' = q_params)

\* C7: the policy has no function state or random generator of its own: its
\* function_state and rng are those of q, an assignment to policy.function_state
\* lands in q.function_state and is read by every policy wrapping q, and it leaves
\* epsilon / temperature and q.params as they were.
C7_NoOwnState == []C7_StateDelegated /\ [][C7_FunctionStateFrame]_vars

\* C7 witness: function_state was assigned through one policy and a second policy
\* of the other class wraps the same q-function
C7_Witness ==
    /\ last.op = "policy.function_state=" /\ last.target = "pi1" /\ last.arg = "fs1"
    /\ SameQ("pi1", "pi2")
    /\ policies["pi1"].cls # policies["pi2"].cls
    /\ policies["pi1"].temperature = <<1, 50>>
    /\ Policy_function_state(policies["pi2"], q_function_state) = "fs1"

(***************************************************************************)
(* Claims about the PPO training loop (SpecPPO).                           *)
(***************************************************************************)
InUpdateLoop == pc \in {"sample", "td_error", "ppo_clip.update", "value_td.update"}

\* the smooth updates made so far: the versions of pi mixed into pi_behavior
SmoothUpdates == Len(pi_behavior) - 1

C8_OneBehaviorPerBuffer ==
    /\ DOMAIN buffer \subseteq {pi_behavior}
    /\ InUpdateLoop => DOMAIN buffer = {pi_behavior}
    /\ pc \in {"td_error", "ppo_clip.update", "value_td.update"} =>
           transition_batch = {pi_behavior}
    /\ SmoothUpdates = IF pc \in BlockStatements THEN blocks - 1 ELSE blocks

C8_OnlySmoothUpdate ==
    pi_behavior' # pi_behavior =>
        /\ pc = "smooth_update"
        /\ buffer = EmptyBuffer
        /\ pi_behavior' = pi_behavior \o pi

\* C8: pi_behavior changes only in smooth_update(pi, tau=0.1), once per update block
\* and after buffer.clear(), so the transitions in the buffer while an update block
\* samples were all generated by the one current pi_behavior, although pi is
\* updated in every iteration of the block.
C8_BehaviorPolicyFixed == []C8_OneBehaviorPerBuffer /\ [][C8_OnlySmoothUpdate]_vars

\* C8 witness: the second update block samples, pi_behavior having been smoothed
\* once and pi updated in this block already
C8_Witness ==
    /\ pc = "sample"
    /\ blocks = 2
    /\ iteration = 3
    /\ pi_behavior = <<0, 32>>
    /\ pi = <<35>>
    /\ buffer = [by \in {<<0, 32>>} |-> 256]

C9_BlockShape ==
    /\ BufferLen(buffer) <= 256
    /\ InUpdateLoop => (BufferLen(buffer) = 256 /\ iteration < 32)
    /\ pc = "buffer.clear" => (BufferLen(buffer) = 256 /\ iteration = 32)
    /\ pc = "smooth_update" => (BufferLen(buffer) = 0 /\ iteration = 32)
    /\ pc = "td_error" => trace = <<"sample">>
    /\ pc = "ppo_clip.update" =>
        /\ trace = <<"sample", "td_error">>
        /\ td_error = [batch |-> transition_batch, v |-> v]
    /\ pc = "value_td.update" =>
        /\ trace = <<"sample", "td_error", "ppo_clip.update">>
        /\ Adv = [batch |-> transition_batch, v |-> v]
    /\ (pc \in {"sample", "buffer.clear"} /\ iteration > 0) =>
        trace = <<"sample", "td_error", "ppo_clip.update", "value_td.update">>
    /\ pc = "if done" => added
    /\ (pc = "if done" /\ BufferLen(buffer) = 0) => blocks > 0

C9_BlockEntry ==
    /\ (pc = "if full" /\ BufferLen(buffer) = 256) =>
           (pc' = "sample" /\ iteration' = 0 /\ blocks' = blocks + 1)
    /\ (pc = "if full" /\ BufferLen(buffer) # 256) => (pc' = "if done" /\ blocks' = blocks)
    /\ pc' = "sample" => pc \in {"if full", "value_td.update"}
    /\ blocks' # blocks => pc = "if full"
    /\ pc = "smooth_update" => (pc' = "if done" /\ buffer' = EmptyBuffer)
    /\ pc = "buffer.add" => BufferLen(buffer') = BufferLen(buffer) + 1
    /\ pc' \in {"reset", "finished"} => (pc = "if done" /\ added)

\* C9: an update block runs exactly when the buffer length reaches the capacity 256;
\* it makes exactly 32 iterations, each sample, td_error, ppo_clip.update,
\* value_td.update in this order with td_error computed on the sampled batch; the
\* buffer is empty when the block ends, so its length never exceeds the capacity;
\* and every step's transition, the terminal one included, is added before the
\* episode loop breaks.
C9_UpdateBlock == []C9_BlockShape /\ [][C9_BlockEntry]_vars

\* C9 witness: the step that filled the buffer ended the episode: the block ran, the
\* buffer is empty again and the loop is about to break
C9_Witness ==
    /\ pc = "if done"
    /\ done
    /\ added
    /\ blocks = 1
    /\ buffer = EmptyBuffer
    /\ iteration = 32
    /\ pi = <<32>>
    /\ v = <<32>>
    /\ pi_behavior = <<0, 32>>

====
